---- MODULE Spec2Model ----
(***************************************************************************)
(* A model of the toy compiler's front end: the tokenizer of src/lex.py    *)
(* and the Pratt parser of src/parse.py, driven as src/repl.py drives      *)
(* them: read a source line, Lexer(source).build_tokens(), then            *)
(* Parser(tokens).build_tree().                                            *)
(*                                                                         *)
(* Conventions.  A Python str is a sequence of one-character strings.      *)
(* Optional[x] is a sequence of length 0 (None) or 1 (the value).  Python  *)
(* indices are 0-based: input[i] is input[i + 1] here.                     *)
(*                                                                         *)
(* The methods run on a call stack of frames [fn, at, locals...]: fn is    *)
(* the method, at the place it resumes from.  A step runs a method from    *)
(* one such place to the next call, return, raise or cursor move, so the   *)
(* cursor moves at most once in a step.  ret holds the value the method    *)
(* that returned last gave back; a str and an Optional[Token] carry their  *)
(* Python type there.  An exception is handled nowhere below repl.py, so   *)
(* a raise ends the call of build_tokens or build_tree.                    *)
(***************************************************************************)
EXTENDS Integers, Sequences, FiniteSets, TLC

VARIABLES pc, source, lexer, tokens, parser, statements, stack, ret, outcome

vars == <<pc, source, lexer, tokens, parser, statements, stack, ret, outcome>>

None == <<>>
Some(x) == <<x>>

(***************************************************************************)
(* Characters.  The classes are those of str.isalpha, str.isdigit and      *)
(* str.isspace on the characters the model draws its sources from.         *)
(***************************************************************************)
Letters == {"a", "b", "c", "e", "f", "i", "l", "n", "r", "s", "t", "u", "x"}
Digits == {"0", "1", "2"}
Spaces == {" "}
NUL == "NUL"
QUOTE == "\""

isalpha(ch) == ch \in Letters
isdigit(ch) == ch \in Digits
isalnum(ch) == isalpha(ch) \/ isdigit(ch)
isspace(ch) == ch \in Spaces

(***************************************************************************)
(* Tokens (lex.py: TokenType, Token).                                      *)
(***************************************************************************)
TokenType ==
    {"IDENTIFIER", "NUMBER", "STRING", "BOOL", "LEFT_PARENTHESIS",
     "RIGHT_PARENTHESIS", "LEFT_CURLY", "RIGHT_CURLY", "ASSIGN", "PLUS",
     "DASH", "SLASH", "ASTERISK", "MODULUS", "COMMA", "SEMICOLON", "EQUAL",
     "BANG", "BANG_EQUAL", "LESS", "GREATER", "LESS_EQUAL", "GREATER_EQUAL",
     "AND", "OR", "KEYWORD_FN", "KEYWORD_LET", "KEYWORD_IF",
     "KEYWORD_ELSEIF", "KEYWORD_ELSE", "KEYWORD_RETURN"}

Token(type, literal) == [type |-> type, literal |-> literal]

(***************************************************************************)
(* The lexer (lex.py: Lexer).  A lexer state is [input, index, curr].      *)
(***************************************************************************)
Lexer(src) == [input |-> src, index |-> -1, curr |-> NUL]

Lexer_advance(l) ==
    IF l.index + 1 < Len(l.input)
    THEN [ok |-> TRUE,
          l |-> [l EXCEPT !.index = l.index + 1, !.curr = l.input[l.index + 2]]]
    ELSE [ok |-> FALSE, l |-> l]

Lexer_peek(l, count) ==
    IF l.index + count < Len(l.input) /\ l.index + count >= 0
    THEN Some(l.input[l.index + count + 1])
    ELSE None

(* float(number) of a text made of digits and points: Python accepts       *)
(* digits, digits ".", "." digits and digits "." digits, and raises        *)
(* ValueError otherwise.                                                   *)
float_accepts(number) ==
    LET points == {i \in 1..Len(number) : number[i] = "."}
        digits == {i \in 1..Len(number) : isdigit(number[i])}
    IN  /\ Cardinality(points) <= 1
        /\ digits /= {}
        /\ points \cup digits = 1..Len(number)

(* The keyword table of next_token (the inner match on ident).             *)
keyword(ident) ==
    CASE ident = <<"t", "r", "u", "e">> -> Token("BOOL", Some(ident))
      [] ident = <<"f", "a", "l", "s", "e">> -> Token("BOOL", Some(ident))
      [] ident = <<"i", "f">> -> Token("KEYWORD_IF", None)
      [] ident = <<"e", "l", "s", "e", "i", "f">> -> Token("KEYWORD_ELSEIF", None)
      [] ident = <<"e", "l", "s", "e">> -> Token("KEYWORD_ELSE", None)
      [] ident = <<"r", "e", "t", "u", "r", "n">> -> Token("KEYWORD_RETURN", None)
      [] ident = <<"f", "n">> -> Token("KEYWORD_FN", None)
      [] ident = <<"l", "e", "t">> -> Token("KEYWORD_LET", None)
      [] OTHER -> Token("IDENTIFIER", Some(ident))

(* The single-character cases of next_token.                               *)
single(ch) ==
    CASE ch = "(" -> "LEFT_PARENTHESIS"
      [] ch = ")" -> "RIGHT_PARENTHESIS"
      [] ch = "{" -> "LEFT_CURLY"
      [] ch = "}" -> "RIGHT_CURLY"
      [] ch = "+" -> "PLUS"
      [] ch = "-" -> "DASH"
      [] ch = "*" -> "ASTERISK"
      [] ch = "/" -> "SLASH"
      [] ch = "%" -> "MODULUS"
      [] ch = "," -> "COMMA"
      [] ch = ";" -> "SEMICOLON"
      [] OTHER -> "none"

(* The cases "c if self.peek() == d" of next_token: the token of the pair, *)
(* and the token of c alone ("none": c alone is no token).                 *)
(* double with the pair of ">" copied from that of "<".                     *)
double_greater_as_less(ch) ==
    CASE ch = "=" -> [second |-> "=", pair |-> "EQUAL", alone |-> "ASSIGN"]
      [] ch = "!" -> [second |-> "=", pair |-> "BANG_EQUAL", alone |-> "BANG"]
      [] ch = "<" -> [second |-> "=", pair |-> "LESS_EQUAL", alone |-> "LESS"]
      [] ch = ">" -> [second |-> "=", pair |-> "LESS_EQUAL", alone |-> "GREATER"]
      [] ch = "&" -> [second |-> "&", pair |-> "AND", alone |-> "none"]
      [] ch = "|" -> [second |-> "|", pair |-> "OR", alone |-> "none"]
      [] OTHER -> [second |-> NUL, pair |-> "none", alone |-> "none"]

double(ch) ==
    CASE ch = "=" -> [second |-> "=", pair |-> "EQUAL", alone |-> "ASSIGN"]
      [] ch = "!" -> [second |-> "=", pair |-> "BANG_EQUAL", alone |-> "BANG"]
      [] ch = "<" -> [second |-> "=", pair |-> "LESS_EQUAL", alone |-> "LESS"]
      [] ch = ">" -> [second |-> "=", pair |-> "GREATER_EQUAL", alone |-> "GREATER"]
      [] ch = "&" -> [second |-> "&", pair |-> "AND", alone |-> "none"]
      [] ch = "|" -> [second |-> "|", pair |-> "OR", alone |-> "none"]
      [] OTHER -> [second |-> NUL, pair |-> "none", alone |-> "none"]

(***************************************************************************)
(* The syntax tree (parse.py: the Node classes).  An attribute named       *)
(* "value" is dynamically typed in the source (a str, a bool, a float, an  *)
(* Expression or None), so the Python values stored there carry their      *)
(* type.                                                                   *)
(***************************************************************************)
PyStr(s) == [py |-> "str", v |-> s]
PyBool(b) == [py |-> "bool", v |-> b]
PyOptional(x) == [py |-> "Optional", token |-> x]
PyNone == [py |-> "NoneType"]

RECURSIVE strip_leading_zeros(_)
strip_leading_zeros(s) ==
    IF s /= <<>> /\ Head(s) = "0" THEN strip_leading_zeros(Tail(s)) ELSE s

RECURSIVE strip_trailing_zeros(_)
strip_trailing_zeros(s) ==
    IF s /= <<>> /\ s[Len(s)] = "0"
    THEN strip_trailing_zeros(SubSeq(s, 1, Len(s) - 1))
    ELSE s

(* float(literal): the number a text of digits and at most one point       *)
(* denotes, as its integer digits and its fraction digits ("01." and       *)
(* "1.0" and "1" denote the same float).                                   *)
PyFloat(literal) ==
    LET points == {i \in 1..Len(literal) : literal[i] = "."}
        at == IF points = {} THEN Len(literal) + 1 ELSE CHOOSE i \in points : TRUE
    IN  [py |-> "float",
         int |-> strip_leading_zeros(SubSeq(literal, 1, at - 1)),
         frac |-> strip_trailing_zeros(SubSeq(literal, at + 1, Len(literal)))]

Identifier(value) == [node |-> "Identifier", value |-> PyStr(value)]
Unary(operation, value) == [node |-> "Unary", operation |-> operation, value |-> value]
Binary(left, operation, right) ==
    [node |-> "Binary", left |-> left, operation |-> operation, right |-> right]
Block(body) == [node |-> "Block", body |-> body]
FunctionCall(name, arguments) ==
    [node |-> "FunctionCall", name |-> name, arguments |-> arguments]
If(main, alternatives, fallback) ==
    [node |-> "If", main |-> main, alternatives |-> alternatives, fallback |-> fallback]
FunctionDef(name, arguments, body) ==
    [node |-> "FunctionDef", name |-> name, arguments |-> arguments, body |-> body]
Wrapper(value) == [node |-> "Wrapper", value |-> value]
Let(identifier, value) == [node |-> "Let", identifier |-> identifier, value |-> value]
Return(value) ==
    [node |-> "Return", value |-> IF value = None THEN PyNone ELSE value[1]]

(***************************************************************************)
(* Exceptions, and what a method that may raise gives back.                *)
(***************************************************************************)
UnexpectedTokenError(expected, actual) ==
    [exc |-> "UnexpectedTokenError", expected |-> expected, actual |-> actual]
AttributeError(object, attribute) ==
    [exc |-> "AttributeError", object |-> object, attribute |-> attribute]

Ok(p, v) == [p |-> p, raised |-> FALSE, val |-> v, err |-> None]
Raise(p, e) == [p |-> p, raised |-> TRUE, val |-> None, err |-> e]

(* Leaf.__init__ *)
Leaf(p, token) ==
    CASE token.type = "STRING" ->
           Ok(p, [node |-> "Leaf", kind |-> "STRING", value |-> PyStr(token.literal[1])])
      [] token.type = "BOOL" ->
           Ok(p, [node |-> "Leaf", kind |-> "BOOL",
                  value |-> PyBool(token.literal[1] = <<"t", "r", "u", "e">>)])
      [] token.type = "NUMBER" ->
           Ok(p, [node |-> "Leaf", kind |-> "NUMBER", value |-> PyFloat(token.literal[1])])
      [] OTHER -> Raise(p, UnexpectedTokenError("Leaf.Kind", Some(token)))

(***************************************************************************)
(* The parser (parse.py: Parser).  A parser state is [input, index, curr]; *)
(* curr is None until the first advance().                                 *)
(***************************************************************************)
LOWEST == 1
EQUALS == 2
LESSGREATER == 3
SUM == 4
PRODUCT == 5
LOGICAL == 6
PREFIX == 7
CALL == 8

Parser(src) == [input |-> src, index |-> -1, curr |-> None]

(* prefix_parsers with parse_leaf registered for every other token type.   *)
prefix_parsers_leaf_by_default(type) ==
    CASE type = "IDENTIFIER" -> "parse_identifier"
      [] type \in {"BANG", "DASH"} -> "parse_unary"
      [] type = "LEFT_PARENTHESIS" -> "parse_grouped"
      [] type = "LEFT_CURLY" -> "parse_block"
      [] OTHER -> "parse_leaf"

prefix_parsers(type) ==
    CASE type = "IDENTIFIER" -> "parse_identifier"
      [] type \in {"STRING", "BOOL", "NUMBER"} -> "parse_leaf"
      [] type \in {"BANG", "DASH"} -> "parse_unary"
      [] type = "LEFT_PARENTHESIS" -> "parse_grouped"
      [] type = "LEFT_CURLY" -> "parse_block"
      [] OTHER -> "none"

infix_parsers(type) ==
    CASE type \in {"PLUS", "DASH", "ASTERISK", "SLASH", "MODULUS", "LESS", "GREATER",
                   "LESS_EQUAL", "GREATER_EQUAL", "EQUAL", "BANG_EQUAL", "AND", "OR"} ->
           "parse_binary"
      [] type = "LEFT_PARENTHESIS" -> "parse_fn_call"
      [] OTHER -> "none"

(* infix_precedences with the levels of the logical and the equality       *)
(* operators exchanged.                                                    *)
infix_precedences_logical_below_equality(type) ==
    CASE type \in {"EQUAL", "BANG_EQUAL"} -> Some(LOGICAL)
      [] type \in {"LESS", "GREATER", "LESS_EQUAL", "GREATER_EQUAL"} -> Some(LESSGREATER)
      [] type \in {"PLUS", "DASH"} -> Some(SUM)
      [] type \in {"SLASH", "ASTERISK", "MODULUS"} -> Some(PRODUCT)
      [] type \in {"AND", "OR"} -> Some(EQUALS)
      [] type = "LEFT_PARENTHESIS" -> Some(CALL)
      [] OTHER -> None

infix_precedences(type) ==
    CASE type \in {"EQUAL", "BANG_EQUAL"} -> Some(EQUALS)
      [] type \in {"LESS", "GREATER", "LESS_EQUAL", "GREATER_EQUAL"} -> Some(LESSGREATER)
      [] type \in {"PLUS", "DASH"} -> Some(SUM)
      [] type \in {"SLASH", "ASTERISK", "MODULUS"} -> Some(PRODUCT)
      [] type \in {"AND", "OR"} -> Some(LOGICAL)
      [] type = "LEFT_PARENTHESIS" -> Some(CALL)
      [] OTHER -> None

advance(p) ==
    IF p.index + 1 < Len(p.input)
    THEN [ok |-> TRUE,
          p |-> [p EXCEPT !.index = p.index + 1, !.curr = Some(p.input[p.index + 2])]]
    ELSE [ok |-> FALSE, p |-> p]

consume(p) ==
    LET a == advance(p) IN
    IF ~a.ok THEN Raise(a.p, UnexpectedTokenError("Token", None))
    ELSE Ok(a.p, a.p.curr[1])

peek(p, count) ==
    IF p.index + count < Len(p.input) /\ p.index + count >= 0
    THEN Some(p.input[p.index + count + 1])
    ELSE None

match(p, type) ==
    LET pk == peek(p, 1) IN
    IF pk /= None /\ pk[1].type = type
    THEN [p |-> advance(p).p, val |-> pk]
    ELSE [p |-> p, val |-> None]

expect_current(p, type) ==
    IF p.curr[1].type /= type
    THEN Raise(p, UnexpectedTokenError(type, p.curr))
    ELSE Ok(p, p.curr[1])

expect(p, type) ==
    LET a == advance(p) IN
    IF ~a.ok \/ a.p.curr[1].type /= type
    THEN Raise(a.p, UnexpectedTokenError(type, a.p.curr))
    ELSE Ok(a.p, a.p.curr[1])

(* get_current_precedence that forgets the operator's level.               *)
get_current_precedence_lowest(p) == LOWEST

get_current_precedence(p) ==
    LET prec == infix_precedences(p.curr[1].type) IN
    IF prec /= None THEN prec[1] ELSE LOWEST

get_peek_precedence(p) ==
    LET pk == peek(p, 1) IN
    IF pk /= None /\ infix_precedences(pk[1].type) /= None
    THEN infix_precedences(pk[1].type)[1]
    ELSE LOWEST

(* The match statements of parse_unary and parse_binary.                   *)
unary_operation(type) ==
    CASE type = "BANG" -> "NOT"
      [] type = "DASH" -> "NEGATE"
      [] OTHER -> "UNREACHABLE"

binary_operation(type) ==
    CASE type = "PLUS" -> "ADD"
      [] type = "DASH" -> "SUBTRACT"
      [] type = "ASTERISK" -> "MULTIPLY"
      [] type = "SLASH" -> "DIVIDE"
      [] type = "MODULUS" -> "MODULO"
      [] type = "LESS" -> "LESS"
      [] type = "GREATER" -> "GREATER"
      [] type = "LESS_EQUAL" -> "LESS_EQUAL"
      [] type = "GREATER_EQUAL" -> "GREATER_EQUAL"
      [] type = "EQUAL" -> "EQUAL"
      [] type = "BANG_EQUAL" -> "NOT_EQUAL"
      [] type = "AND" -> "AND"
      [] type = "OR" -> "OR"
      [] OTHER -> "UNREACHABLE"

parse_identifier(p) == Ok(p, Identifier(p.curr[1].literal[1]))

parse_leaf(p) == Leaf(p, p.curr[1])

(***************************************************************************)
(* The sources the model reads (repl.py: source = input('> ')).  A source  *)
(* is written as a sequence of words; Spell gives a word's characters and  *)
(* Text joins the words with single spaces.                                *)
(***************************************************************************)
MaxSrcLen == 3
MaxNumLen == 5
MaxToks == 3
MaxOpLen == 3

Spell(w) ==
    CASE w = "==" -> <<"=", "=">>
      [] w = "!=" -> <<"!", "=">>
      [] w = "<=" -> <<"<", "=">>
      [] w = ">=" -> <<">", "=">>
      [] w = "&&" -> <<"&", "&">>
      [] w = "||" -> <<"|", "|">>
      [] w = "fn" -> <<"f", "n">>
      [] w = "let" -> <<"l", "e", "t">>
      [] w = "if" -> <<"i", "f">>
      [] w = "elseif" -> <<"e", "l", "s", "e", "i", "f">>
      [] w = "else" -> <<"e", "l", "s", "e">>
      [] w = "return" -> <<"r", "e", "t", "u", "r", "n">>
      [] w = "true" -> <<"t", "r", "u", "e">>
      [] w = "str" -> <<QUOTE, "s", QUOTE>>
      [] OTHER -> <<w>>

RECURSIVE Text(_)
Text(words) ==
    IF words = <<>> THEN <<>>
    ELSE IF Len(words) = 1 THEN Spell(words[1])
    ELSE Spell(words[1]) \o <<" ">> \o Text(Tail(words))

(* All sequences over S of length at most n.                               *)
SeqsUpTo(S, n) == UNION {[1..k -> S] : k \in 0..n}

BinaryWords == {"+", "-", "*", "/", "%", "<", ">", "<=", ">=", "==", "!=", "&&", "||"}
UnaryWords == {"!", "-"}

(* One word for each token type.                                           *)
Words ==
    BinaryWords \cup
    {"a", "1", "str", "true", "(", ")", "{", "}", "=", ",", ";", "!",
     "fn", "let", "if", "elseif", "else", "return"}

(* a op1 b op2 c ;  and  u a op b ;  and  - a + b * c ;                    *)
OperatorPrograms ==
    {<<"a", op1, "b", op2, "c", ";">> : op1 \in BinaryWords, op2 \in BinaryWords}
    \cup {<<u, "a", op, "b", ";">> : u \in UnaryWords, op \in BinaryWords}
    \cup {<<"-", "a", "+", "b", "*", "c", ";">>}

(* callee ( arguments ) ;  for several callees and argument lists.         *)
Callees ==
    {<<"f">>, <<"1">>, <<"str">>, <<"true">>, <<"-", "a">>, <<"(", "f", ")">>,
     <<"(", "a", "+", "b", ")">>, <<"{", "}">>, <<"f", "(", "a", ")">>}

Arguments ==
    {<<>>, <<"a">>, <<"a", ",">>, <<"a", ",", "b">>, <<"a", ",", "b", ",">>, <<",">>,
     <<"a", "b">>, <<"a", ",", ",">>}

CallPrograms == {c \o <<"(">> \o a \o <<")", ";">> : c \in Callees, a \in Arguments}

(* Well-formed programs, one for each statement form.                      *)
BasePrograms ==
    {<<"let", "x", "=", "1", ";">>,
     <<"return", ";", "return", "f", "(", "a", ",", "b", ")", ";">>,
     <<"fn", "f", "(", "a", ",", "b", ")", "{", "return", "a", "+", "b", ";", "}", ";">>,
     <<"fn", "f", "(", ")", "{", "}", ";">>,
     <<"fn", "f", "(", ")", "{", "if", "a", "{", "}", ";", "}", ";">>,
     <<"if", "a", "{", "x", ";", "}", "elseif", "b", "{", "}", "else", "{", "}", ";">>,
     <<"if", "a", "{", "}", ";">>,
     <<"(", "a", "+", "1", ")", "*", "-", "b", ";">>,
     <<"{", "x", ";", "}", ";", "str", ";">>}

(* The base programs cut short, and with one word replaced.                *)
Prefixes == UNION {{SubSeq(b, 1, n) : n \in 0..Len(b)} : b \in BasePrograms}

Replaced ==
    UNION {{[b EXCEPT ![i] = w] : i \in 1..Len(b), w \in Words} : b \in BasePrograms}

(* What may stand before an expression, with the words that another rule  *)
(* of the grammar takes there.                                             *)
StatementWords == {"let", "return", "if", "fn"}
PrefixWords == {"a", "1", "str", "true", "!", "-", "(", "{"}

LeadingContexts ==
    {[before |-> <<>>, taken |-> StatementWords],
     [before |-> <<"x", ";">>, taken |-> StatementWords],
     [before |-> <<"{">>, taken |-> StatementWords \cup {"}"}],
     [before |-> <<"let", "x", "=">>, taken |-> {}],
     [before |-> <<"return">>, taken |-> {";"}],
     [before |-> <<"if">>, taken |-> {}],
     [before |-> <<"if", "a", "{", "}", "elseif">>, taken |-> {}],
     [before |-> <<"(">>, taken |-> {}],
     [before |-> <<"a", "+">>, taken |-> {}],
     [before |-> <<"-">>, taken |-> {}],
     [before |-> <<"!">>, taken |-> {}],
     [before |-> <<"f", "(">>, taken |-> {")"}],
     [before |-> <<"f", "(", "a", ",">>, taken |-> {")"}]}

ContextPrograms ==
    {c.before \o <<w>> \o rest :
        c \in LeadingContexts, w \in Words, rest \in {<<>>, <<";">>, <<"a", ";">>}}

(* The sources the specification's examples name.                          *)
ExampleSources ==
    {<<QUOTE, "a", "b", "c">>, <<QUOTE>>, <<"1", ".", "2", ".", "1">>,
     <<"1", "(", "2", ")", ";">>, <<QUOTE, "s", QUOTE, "(", "x", ")", ";">>,
     <<"f", "(", "a", ",", ")", ";">>, <<"f", "(", "a">>,
     <<"(", "a", " ", "+", " ", "b", ")", "(", "c", ")", ";">>,
     <<"l", "e", "t", " ", "x", " ", "=", " ", ";">>,
     <<"l", "e", "t", " ", "x", " ", "=", " ", "1">>}

Characters == {"a", "1", ".", QUOTE, " ", "&", "=", ";"}
NumberCharacters == {"1", "."}
TokenWords == {"a", "1", "(", ")", ",", ";", "+", "-"}
OperatorCharacters == {"=", "!", "<", ">", "&", "|", " "}

Sources ==
    SeqsUpTo(Characters, MaxSrcLen)
    \cup SeqsUpTo(NumberCharacters, MaxNumLen)
    \cup SeqsUpTo(OperatorCharacters, MaxOpLen)
    \cup {Text(ws) : ws \in SeqsUpTo(TokenWords, MaxToks)}
    \cup {Text(ws) : ws \in OperatorPrograms \cup CallPrograms \cup BasePrograms
                              \cup Prefixes \cup Replaced \cup ContextPrograms}
    \cup ExampleSources

(***************************************************************************)
(* The call stack.                                                         *)
(***************************************************************************)
Top == stack[Len(stack)]
Below == SubSeq(stack, 1, Len(stack) - 1)

(* The top frame replaced; the top frame replaced and a callee entered.    *)
Goto(frame) == Append(Below, frame)
Call(frame, callee) == Append(Append(Below, frame), callee)

In(stage, fn, at) ==
    /\ pc = stage
    /\ stack /= <<>>
    /\ Top.fn = fn
    /\ Top.at = at

IllegalLexemeError(text) == [exc |-> "IllegalLexemeError", payload |-> text]

Pending == [kind |-> "pending", err |-> None]
Returned == [kind |-> "returned", err |-> None]
Raised(e) == [kind |-> "raised", err |-> Some(e)]

(***************************************************************************)
(* The steps of the lexer.  LexStep: the lexer goes on with cursor l,      *)
(* stack stk and return value r.  LexReturns: the method on top returns v. *)
(* LexRaises: it raises IllegalLexemeError(text).                          *)
(***************************************************************************)
LexStep(l, stk, r) ==
    /\ lexer' = l
    /\ stack' = stk
    /\ ret' = r
    /\ UNCHANGED <<pc, source, tokens, parser, statements, outcome>>

LexReturns(l, v) == LexStep(l, Below, Some(v))

LexRaises(l, text) ==
    /\ lexer' = l
    /\ outcome' = Raised(IllegalLexemeError(text))
    /\ pc' = "raised"
    /\ UNCHANGED <<source, tokens, parser, statements, stack, ret>>

next_token_frame == [fn |-> "next_token", at |-> "enter"]
read_identifier_frame(l) == [fn |-> "read_identifier", at |-> "while", ident |-> <<l.curr>>]
read_number_frame(l) == [fn |-> "read_number", at |-> "while", number |-> <<l.curr>>]
read_string_frame == [fn |-> "read_string", at |-> "while", string |-> <<>>, malformed |-> TRUE]

(* read_identifier: one test of the while loop.                            *)
read_identifier ==
    /\ In("build_tokens", "read_identifier", "while")
    /\ LET pk == Lexer_peek(lexer, 1) IN
       IF pk /= None /\ (isalnum(pk[1]) \/ pk[1] = "_")
       THEN LexStep(Lexer_advance(lexer).l,
                    Goto([Top EXCEPT !.ident = Append(Top.ident, pk[1])]), None)
       ELSE LexReturns(lexer, PyStr(Top.ident))

(* read_number: one test of the while loop; after it, float(number).       *)
read_number ==
    /\ In("build_tokens", "read_number", "while")
    /\ LET pk == Lexer_peek(lexer, 1) IN
       IF pk /= None /\ (isdigit(pk[1]) \/ pk[1] = ".")
       THEN LexStep(Lexer_advance(lexer).l,
                    Goto([Top EXCEPT !.number = Append(Top.number, pk[1])]), None)
       ELSE IF float_accepts(Top.number)
            THEN LexReturns(lexer, PyStr(Top.number))
            ELSE LexRaises(lexer, Top.number)

(* read_string_end raising with the collected characters alone.            *)
read_string_end_without_quote(l, string, malformed) ==
    IF l.curr /= QUOTE \/ malformed
    THEN LexRaises(l, string)
    ELSE LexReturns(l, PyStr(string))

(* What follows the while loop of read_string.                             *)
read_string_end(l, string, malformed) ==
    IF l.curr /= QUOTE \/ malformed
    THEN LexRaises(l, <<QUOTE>> \o string)
    ELSE LexReturns(l, PyStr(string))

(* read_string: one test of the while loop.                                *)
read_string ==
    /\ In("build_tokens", "read_string", "while")
    /\ LET a == Lexer_advance(lexer) IN
       IF ~a.ok THEN read_string_end(lexer, Top.string, Top.malformed)
       ELSE IF a.l.curr = QUOTE THEN read_string_end(a.l, Top.string, FALSE)
       ELSE LexStep(a.l, Goto([Top EXCEPT !.string = Append(Top.string, a.l.curr),
                                          !.malformed = FALSE]), None)

(* next_token whose loop over white space does not advance.              *)
next_token_standing_on_space ==
    \/ /\ In("build_tokens", "next_token", "enter")
       /\ LET a == Lexer_advance(lexer) IN
          IF ~a.ok THEN LexReturns(lexer, PyOptional(None))
          ELSE LexStep(a.l, Goto([Top EXCEPT !.at = "match"]), None)
    \/ /\ In("build_tokens", "next_token", "match")
       /\ isspace(lexer.curr)
       /\ LexStep(lexer, stack, None)
    \/ /\ In("build_tokens", "next_token", "match")
       /\ single(lexer.curr) /= "none"
       /\ LexReturns(lexer, PyOptional(Some(Token(single(lexer.curr), None))))
    \/ /\ In("build_tokens", "next_token", "match")
       /\ lexer.curr = QUOTE
       /\ LexStep(lexer, Call([Top EXCEPT !.at = "string"], read_string_frame), None)
    \/ /\ In("build_tokens", "next_token", "string")
       /\ LexReturns(lexer, PyOptional(Some(Token("STRING", Some(ret[1].v)))))
    \/ /\ In("build_tokens", "next_token", "match")
       /\ double(lexer.curr).pair /= "none"
       /\ Lexer_peek(lexer, 1) = Some(double(lexer.curr).second)
       /\ LexReturns(Lexer_advance(lexer).l, PyOptional(Some(Token(double(lexer.curr).pair, None))))
    \/ /\ In("build_tokens", "next_token", "match")
       /\ double(lexer.curr).alone /= "none"
       /\ Lexer_peek(lexer, 1) /= Some(double(lexer.curr).second)
       /\ LexReturns(lexer, PyOptional(Some(Token(double(lexer.curr).alone, None))))
    \/ /\ In("build_tokens", "next_token", "match")
       /\ isalpha(lexer.curr)
       /\ LexStep(lexer, Call([Top EXCEPT !.at = "identifier"],
                              read_identifier_frame(lexer)), None)
    \/ /\ In("build_tokens", "next_token", "identifier")
       /\ LexReturns(lexer, PyOptional(Some(keyword(ret[1].v))))
    \/ /\ In("build_tokens", "next_token", "match")
       /\ (isdigit(lexer.curr) \/ lexer.curr = ".")
       /\ LexStep(lexer, Call([Top EXCEPT !.at = "number"], read_number_frame(lexer)), None)
    \/ /\ In("build_tokens", "next_token", "number")
       /\ LexReturns(lexer, PyOptional(Some(Token("NUMBER", Some(ret[1].v)))))
    \/ /\ In("build_tokens", "next_token", "match")
       /\ ~isspace(lexer.curr)
       /\ single(lexer.curr) = "none"
       /\ lexer.curr /= QUOTE
       /\ (\/ double(lexer.curr).pair = "none"
           \/ Lexer_peek(lexer, 1) /= Some(double(lexer.curr).second))
       /\ double(lexer.curr).alone = "none"
       /\ ~isalpha(lexer.curr)
       /\ ~(isdigit(lexer.curr) \/ lexer.curr = ".")
       /\ LexRaises(lexer, <<lexer.curr>>)

(* next_token: its first advance(), its loop over white space, its match   *)
(* statement, and the tokens it makes of what the read_ methods return.    *)
next_token ==
    \/ /\ In("build_tokens", "next_token", "enter")
       /\ LET a == Lexer_advance(lexer) IN
          IF ~a.ok THEN LexReturns(lexer, PyOptional(None))
          ELSE LexStep(a.l, Goto([Top EXCEPT !.at = "match"]), None)
    \/ /\ In("build_tokens", "next_token", "match")
       /\ isspace(lexer.curr)
       /\ LET a == Lexer_advance(lexer) IN
          IF ~a.ok THEN LexReturns(lexer, PyOptional(None))
          ELSE LexStep(a.l, stack, None)
    \/ /\ In("build_tokens", "next_token", "match")
       /\ single(lexer.curr) /= "none"
       /\ LexReturns(lexer, PyOptional(Some(Token(single(lexer.curr), None))))
    \/ /\ In("build_tokens", "next_token", "match")
       /\ lexer.curr = QUOTE
       /\ LexStep(lexer, Call([Top EXCEPT !.at = "string"], read_string_frame), None)
    \/ /\ In("build_tokens", "next_token", "string")
       /\ LexReturns(lexer, PyOptional(Some(Token("STRING", Some(ret[1].v)))))
    \/ /\ In("build_tokens", "next_token", "match")
       /\ double(lexer.curr).pair /= "none"
       /\ Lexer_peek(lexer, 1) = Some(double(lexer.curr).second)
       /\ LexReturns(Lexer_advance(lexer).l, PyOptional(Some(Token(double(lexer.curr).pair, None))))
    \/ /\ In("build_tokens", "next_token", "match")
       /\ double(lexer.curr).alone /= "none"
       /\ Lexer_peek(lexer, 1) /= Some(double(lexer.curr).second)
       /\ LexReturns(lexer, PyOptional(Some(Token(double(lexer.curr).alone, None))))
    \/ /\ In("build_tokens", "next_token", "match")
       /\ isalpha(lexer.curr)
       /\ LexStep(lexer, Call([Top EXCEPT !.at = "identifier"],
                              read_identifier_frame(lexer)), None)
    \/ /\ In("build_tokens", "next_token", "identifier")
       /\ LexReturns(lexer, PyOptional(Some(keyword(ret[1].v))))
    \/ /\ In("build_tokens", "next_token", "match")
       /\ (isdigit(lexer.curr) \/ lexer.curr = ".")
       /\ LexStep(lexer, Call([Top EXCEPT !.at = "number"], read_number_frame(lexer)), None)
    \/ /\ In("build_tokens", "next_token", "number")
       /\ LexReturns(lexer, PyOptional(Some(Token("NUMBER", Some(ret[1].v)))))
    \/ /\ In("build_tokens", "next_token", "match")
       /\ ~isspace(lexer.curr)
       /\ single(lexer.curr) = "none"
       /\ lexer.curr /= QUOTE
       /\ (\/ double(lexer.curr).pair = "none"
           \/ Lexer_peek(lexer, 1) /= Some(double(lexer.curr).second))
       /\ double(lexer.curr).alone = "none"
       /\ ~isalpha(lexer.curr)
       /\ ~(isdigit(lexer.curr) \/ lexer.curr = ".")
       /\ LexRaises(lexer, <<lexer.curr>>)

(* Lexer.build_tokens: next_token() returned a token, which is appended,   *)
(* and next_token() is called again.                                       *)
BuildTokensAppend ==
    /\ pc = "build_tokens"
    /\ stack = <<>>
    /\ ret /= None
    /\ ret[1].token /= None
    /\ tokens' = Append(tokens, ret[1].token[1])
    /\ stack' = <<next_token_frame>>
    /\ ret' = None
    /\ UNCHANGED <<pc, source, lexer, parser, statements, outcome>>
(***************************************************************************)
(* The steps of the parser.  Step: the parser goes on with cursor p, stack *)
(* stk and return value r.  Returns: the method on top returns v.         *)
(* Raises: the exception of r is raised.                                   *)
(***************************************************************************)
Step(p, stk, r) ==
    /\ parser' = p
    /\ stack' = stk
    /\ ret' = r
    /\ UNCHANGED <<pc, source, lexer, tokens, statements, outcome>>

Returns(p, v) == Step(p, Below, Some(v))

Raises(r) ==
    /\ parser' = r.p
    /\ outcome' = Raised(r.err)
    /\ pc' = "raised"
    /\ UNCHANGED <<source, lexer, tokens, statements, stack, ret>>

parse_statement_frame == [fn |-> "parse_statement", at |-> "enter"]
parse_expression_frame(precedence) ==
    [fn |-> "parse_expression", at |-> "enter", precedence |-> precedence]
parse_block_frame == [fn |-> "parse_block", at |-> "enter", statements |-> <<>>]

(* The frame of a prefix parser and of an infix parser, by its name in     *)
(* prefix_parsers and infix_parsers.                                       *)
prefix_frame(name) ==
    CASE name = "parse_unary" -> [fn |-> "parse_unary", at |-> "enter"]
      [] name = "parse_grouped" -> [fn |-> "parse_grouped", at |-> "enter"]
      [] name = "parse_block" -> parse_block_frame

infix_frame(name, left) ==
    CASE name = "parse_binary" -> [fn |-> "parse_binary", at |-> "enter", left |-> left]
      [] name = "parse_fn_call" ->
           [fn |-> "parse_fn_call", at |-> "enter", left |-> left, args |-> <<>>]

(* The while loop of parse_expression, from its test on, with left parsed. *)
parse_expression_while(left) ==
    LET pk == peek(parser, 1) IN
    IF \/ pk = None
       \/ pk[1].type = "SEMICOLON"
       \/ Top.precedence >= get_peek_precedence(parser)
       \/ infix_parsers(pk[1].type) = "none"
    THEN Returns(parser, left)
    ELSE LET c == consume(parser) IN
         IF c.raised THEN Raises(c)
         ELSE Step(c.p, Call([Top EXCEPT !.at = "left"],
                             infix_frame(infix_parsers(pk[1].type), left)), None)

(* parse_expression.  parse_identifier and parse_leaf call nothing and     *)
(* leave the cursor alone: they are evaluated in the step that calls them. *)
parse_expression ==
    \/ /\ In("build_tree", "parse_expression", "enter")
       /\ prefix_parsers(parser.curr[1].type) = "none"
       /\ Raises(Raise(parser, UnexpectedTokenError("Expression", parser.curr)))
    \/ /\ In("build_tree", "parse_expression", "enter")
       /\ prefix_parsers(parser.curr[1].type) = "parse_identifier"
       /\ parse_expression_while(parse_identifier(parser).val)
    \/ /\ In("build_tree", "parse_expression", "enter")
       /\ prefix_parsers(parser.curr[1].type) = "parse_leaf"
       /\ IF parse_leaf(parser).raised THEN Raises(parse_leaf(parser))
          ELSE parse_expression_while(parse_leaf(parser).val)
    \/ /\ In("build_tree", "parse_expression", "enter")
       /\ prefix_parsers(parser.curr[1].type) \in {"parse_unary", "parse_grouped", "parse_block"}
       /\ Step(parser, Call([Top EXCEPT !.at = "left"],
                            prefix_frame(prefix_parsers(parser.curr[1].type))), None)
    \/ /\ In("build_tree", "parse_expression", "left")
       /\ parse_expression_while(ret[1])

(* parse_unary parsing its operand at the lowest precedence.               *)
parse_unary_operand_at_lowest ==
    \/ /\ In("build_tree", "parse_unary", "enter")
       /\ LET c == consume(parser) IN
          IF c.raised THEN Raises(c)
          ELSE Step(c.p,
                    Call([fn |-> "parse_unary", at |-> "value",
                          operation |-> unary_operation(parser.curr[1].type)],
                         parse_expression_frame(LOWEST)),
                    None)
    \/ /\ In("build_tree", "parse_unary", "value")
       /\ Returns(parser, Unary(Top.operation, ret[1]))

parse_unary ==
    \/ /\ In("build_tree", "parse_unary", "enter")
       /\ LET c == consume(parser) IN
          IF c.raised THEN Raises(c)
          ELSE Step(c.p,
                    Call([fn |-> "parse_unary", at |-> "value",
                          operation |-> unary_operation(parser.curr[1].type)],
                         parse_expression_frame(PREFIX)),
                    None)
    \/ /\ In("build_tree", "parse_unary", "value")
       /\ Returns(parser, Unary(Top.operation, ret[1]))

parse_binary ==
    \/ /\ In("build_tree", "parse_binary", "enter")
       /\ LET c == consume(parser) IN
          IF c.raised THEN Raises(c)
          ELSE Step(c.p,
                    Call([fn |-> "parse_binary", at |-> "right", left |-> Top.left,
                          operation |-> binary_operation(parser.curr[1].type)],
                         parse_expression_frame(get_current_precedence(parser))),
                    None)
    \/ /\ In("build_tree", "parse_binary", "right")
       /\ Returns(parser, Binary(Top.left, Top.operation, ret[1]))

parse_grouped ==
    \/ /\ In("build_tree", "parse_grouped", "enter")
       /\ LET c == consume(parser) IN
          IF c.raised THEN Raises(c)
          ELSE Step(c.p, Call([Top EXCEPT !.at = "expression"],
                              parse_expression_frame(LOWEST)), None)
    \/ /\ In("build_tree", "parse_grouped", "expression")
       /\ LET x == expect(parser, "RIGHT_PARENTHESIS") IN
          IF x.raised THEN Raises(x) ELSE Returns(x.p, ret[1])

(* The loop of parse_block, with stmts parsed so far.  parse_statement     *)
(* never returns None, so UnexpectedTokenError(Statement, None) is never   *)
(* raised.                                                                 *)
parse_block_while(stmts) ==
    LET c == consume(parser) IN
    IF c.raised THEN Raises(c)
    ELSE IF c.val.type = "RIGHT_CURLY" THEN Returns(c.p, Block(stmts))
    ELSE Step(c.p, Call([fn |-> "parse_block", at |-> "stmt", statements |-> stmts],
                        parse_statement_frame), None)

parse_block ==
    \/ /\ In("build_tree", "parse_block", "enter")
       /\ parse_block_while(Top.statements)
    \/ /\ In("build_tree", "parse_block", "stmt")
       /\ parse_block_while(Append(Top.statements, ret[1]))

(* cast(Identifier, left).value: the attribute "value" of whatever left    *)
(* is; Binary, Block and FunctionCall objects have none.                   *)
value_of(left) ==
    IF left.node \in {"Identifier", "Leaf", "Unary"}
    THEN [raised |-> FALSE, val |-> left.value]
    ELSE [raised |-> TRUE, val |-> None]

(* What follows the while loop of parse_fn_call.                           *)
parse_fn_call_end(p, left, args) ==
    LET x == expect_current(p, "RIGHT_PARENTHESIS") IN
    IF x.raised THEN Raises(x)
    ELSE IF value_of(left).raised
    THEN Raises(Raise(p, AttributeError(left.node, "value")))
    ELSE Returns(p, FunctionCall(value_of(left).val, args))

(* The while loop of parse_fn_call, from its test on, with cursor p.       *)
parse_fn_call_while(p) ==
    IF p.curr[1].type /= "RIGHT_PARENTHESIS"
    THEN Step(p, Call([Top EXCEPT !.at = "arg"], parse_expression_frame(LOWEST)), None)
    ELSE parse_fn_call_end(p, Top.left, Top.args)

parse_fn_call ==
    \/ /\ In("build_tree", "parse_fn_call", "enter")
       /\ LET c == consume(parser) IN
          IF c.raised THEN Raises(c) ELSE parse_fn_call_while(c.p)
    \/ /\ In("build_tree", "parse_fn_call", "arg")
       /\ match(parser, "COMMA").val /= None
       /\ Step(match(parser, "COMMA").p,
               Goto([Top EXCEPT !.at = "comma", !.args = Append(Top.args, ret[1])]), None)
    \/ /\ In("build_tree", "parse_fn_call", "arg")
       /\ match(parser, "COMMA").val = None
       /\ LET x == expect(parser, "RIGHT_PARENTHESIS") IN
          IF x.raised THEN Raises(x)
          ELSE parse_fn_call_end(x.p, Top.left, Append(Top.args, ret[1]))
    \/ /\ In("build_tree", "parse_fn_call", "comma")
       /\ LET x == expect_current(parser, "COMMA") IN
          IF x.raised THEN Raises(x)
          ELSE LET c == consume(x.p) IN
               IF c.raised THEN Raises(c) ELSE parse_fn_call_while(c.p)

parse_statement ==
    \/ /\ In("build_tree", "parse_statement", "enter")
       /\ Step(parser,
               Call([Top EXCEPT !.at = "return"],
                    CASE parser.curr[1].type = "KEYWORD_IF" ->
                           [fn |-> "parse_if", at |-> "enter", main |-> None,
                            alternatives |-> <<>>]
                      [] parser.curr[1].type = "KEYWORD_RETURN" ->
                           [fn |-> "parse_return", at |-> "enter"]
                      [] parser.curr[1].type = "KEYWORD_LET" ->
                           [fn |-> "parse_let", at |-> "enter"]
                      [] parser.curr[1].type = "KEYWORD_FN" ->
                           [fn |-> "parse_fn_def", at |-> "enter"]
                      [] OTHER -> [fn |-> "parse_wrapper", at |-> "enter"]),
               None)
    \/ /\ In("build_tree", "parse_statement", "return")
       /\ Returns(parser, ret[1])

(* The while loop of parse_fn_def, from its test to the match() of the     *)
(* comma, with cursor p.                                                   *)
parse_fn_def_while(p, name, args) ==
    IF p.curr[1].type /= "RIGHT_PARENTHESIS"
    THEN LET x == expect_current(p, "IDENTIFIER") IN
         IF x.raised THEN Raises(x)
         ELSE Step(p, Goto([fn |-> "parse_fn_def", at |-> "match", name |-> name,
                            args |-> Append(args, x.val.literal[1])]), None)
    ELSE Step(p, Goto([fn |-> "parse_fn_def", at |-> "body", name |-> name,
                       args |-> args]), None)

parse_fn_def ==
    \/ /\ In("build_tree", "parse_fn_def", "enter")
       /\ LET x == expect(parser, "IDENTIFIER") IN
          IF x.raised THEN Raises(x)
          ELSE Step(x.p, Goto([fn |-> "parse_fn_def", at |-> "parenthesis",
                               name |-> x.val.literal[1], args |-> <<>>]), None)
    \/ /\ In("build_tree", "parse_fn_def", "parenthesis")
       /\ LET x == expect(parser, "LEFT_PARENTHESIS") IN
          IF x.raised THEN Raises(x)
          ELSE Step(x.p, Goto([Top EXCEPT !.at = "consume"]), None)
    \/ /\ In("build_tree", "parse_fn_def", "consume")
       /\ LET c == consume(parser) IN
          IF c.raised THEN Raises(c) ELSE parse_fn_def_while(c.p, Top.name, Top.args)
    \/ /\ In("build_tree", "parse_fn_def", "match")
       /\ match(parser, "COMMA").val /= None
       /\ Step(match(parser, "COMMA").p, Goto([Top EXCEPT !.at = "comma"]), None)
    \/ /\ In("build_tree", "parse_fn_def", "match")
       /\ match(parser, "COMMA").val = None
       /\ LET x == expect(parser, "RIGHT_PARENTHESIS") IN
          IF x.raised THEN Raises(x)
          ELSE Step(x.p, Goto([Top EXCEPT !.at = "body"]), None)
    \/ /\ In("build_tree", "parse_fn_def", "comma")
       /\ LET x == expect_current(parser, "COMMA") IN
          IF x.raised THEN Raises(x)
          ELSE LET c == consume(x.p) IN
               IF c.raised THEN Raises(c) ELSE parse_fn_def_while(c.p, Top.name, Top.args)
    \/ /\ In("build_tree", "parse_fn_def", "body")
       /\ LET x == expect(parser, "LEFT_CURLY") IN
          IF x.raised THEN Raises(x)
          ELSE Step(x.p, Call([Top EXCEPT !.at = "semicolon"], parse_block_frame), None)
    \/ /\ In("build_tree", "parse_fn_def", "semicolon")
       /\ LET x == expect(parser, "SEMICOLON") IN
          IF x.raised THEN Raises(x)
          ELSE Returns(x.p, FunctionDef(Top.name, Top.args, ret[1]))

(* parse_if.  alternatives is a dict keyed by the condition objects, which *)
(* are all distinct: it is the sequence of its items in insertion order.   *)
(* main is None until the first consequence is parsed.                     *)
parse_if ==
    \/ /\ In("build_tree", "parse_if", "enter")
       /\ LET c == consume(parser) IN
          IF c.raised THEN Raises(c)
          ELSE Step(c.p, Call([Top EXCEPT !.at = "condition"],
                              parse_expression_frame(LOWEST)), None)
    \/ /\ In("build_tree", "parse_if", "condition")
       /\ LET x == expect(parser, "LEFT_CURLY") IN
          IF x.raised THEN Raises(x)
          ELSE Step(x.p,
                    Call([fn |-> "parse_if", at |-> "consequence", main |-> Top.main,
                          alternatives |-> Top.alternatives, condition |-> ret[1]],
                         parse_block_frame),
                    None)
    \/ /\ In("build_tree", "parse_if", "consequence")
       /\ LET c == consume(parser) IN
          IF c.raised THEN Raises(c)
          ELSE Step(c.p,
                    Goto([fn |-> "parse_if", at |-> "while",
                          main |-> IF Top.main = None
                                   THEN Some(<<Top.condition, ret[1]>>)
                                   ELSE Top.main,
                          alternatives |->
                              IF Top.main = None THEN Top.alternatives
                              ELSE Append(Top.alternatives, <<Top.condition, ret[1]>>)]),
                    None)
    \/ /\ In("build_tree", "parse_if", "while")
       /\ parser.curr[1].type = "KEYWORD_ELSEIF"
       /\ LET c == consume(parser) IN
          IF c.raised THEN Raises(c)
          ELSE Step(c.p, Call([Top EXCEPT !.at = "condition"],
                              parse_expression_frame(LOWEST)), None)
    \/ /\ In("build_tree", "parse_if", "while")
       /\ parser.curr[1].type = "KEYWORD_ELSE"
       /\ LET x == expect(parser, "LEFT_CURLY") IN
          IF x.raised THEN Raises(x)
          ELSE Step(x.p, Call([Top EXCEPT !.at = "fallback"], parse_block_frame), None)
    \/ /\ In("build_tree", "parse_if", "while")
       /\ parser.curr[1].type \notin {"KEYWORD_ELSEIF", "KEYWORD_ELSE"}
       /\ LET x == expect_current(parser, "SEMICOLON") IN
          IF x.raised THEN Raises(x)
          ELSE Returns(x.p, If(Top.main[1], Top.alternatives, None))
    \/ /\ In("build_tree", "parse_if", "fallback")
       /\ LET c == consume(parser) IN
          IF c.raised THEN Raises(c)
          ELSE LET x == expect_current(c.p, "SEMICOLON") IN
               IF x.raised THEN Raises(x)
               ELSE Returns(x.p, If(Top.main[1], Top.alternatives, Some(ret[1])))

parse_return ==
    \/ /\ In("build_tree", "parse_return", "enter")
       /\ match(parser, "SEMICOLON").val /= None
       /\ Returns(match(parser, "SEMICOLON").p, Return(None))
    \/ /\ In("build_tree", "parse_return", "enter")
       /\ match(parser, "SEMICOLON").val = None
       /\ LET c == consume(parser) IN
          IF c.raised THEN Raises(c)
          ELSE Step(c.p, Call([Top EXCEPT !.at = "semicolon"],
                              parse_expression_frame(LOWEST)), None)
    \/ /\ In("build_tree", "parse_return", "semicolon")
       /\ LET x == expect(parser, "SEMICOLON") IN
          IF x.raised THEN Raises(x) ELSE Returns(x.p, Return(Some(ret[1])))

parse_let ==
    \/ /\ In("build_tree", "parse_let", "enter")
       /\ LET x == expect(parser, "IDENTIFIER") IN
          IF x.raised THEN Raises(x)
          ELSE Step(x.p, Goto([fn |-> "parse_let", at |-> "assign",
                               identifier |-> x.val.literal[1]]), None)
    \/ /\ In("build_tree", "parse_let", "assign")
       /\ LET x == expect(parser, "ASSIGN") IN
          IF x.raised THEN Raises(x)
          ELSE Step(x.p, Goto([Top EXCEPT !.at = "consume"]), None)
    \/ /\ In("build_tree", "parse_let", "consume")
       /\ LET c == consume(parser) IN
          IF c.raised THEN Raises(c)
          ELSE Step(c.p, Call([Top EXCEPT !.at = "semicolon"],
                              parse_expression_frame(LOWEST)), None)
    \/ /\ In("build_tree", "parse_let", "semicolon")
       /\ LET x == expect(parser, "SEMICOLON") IN
          IF x.raised THEN Raises(x) ELSE Returns(x.p, Let(Top.identifier, ret[1]))

(* parse_wrapper that does not require the semicolon.                      *)
parse_wrapper_without_semicolon ==
    \/ /\ In("build_tree", "parse_wrapper", "enter")
       /\ Step(parser, Call([Top EXCEPT !.at = "semicolon"],
                            parse_expression_frame(LOWEST)), None)
    \/ /\ In("build_tree", "parse_wrapper", "semicolon")
       /\ Returns(parser, Wrapper(ret[1]))

parse_wrapper ==
    \/ /\ In("build_tree", "parse_wrapper", "enter")
       /\ Step(parser, Call([Top EXCEPT !.at = "semicolon"],
                            parse_expression_frame(LOWEST)), None)
    \/ /\ In("build_tree", "parse_wrapper", "semicolon")
       /\ LET x == expect(parser, "SEMICOLON") IN
          IF x.raised THEN Raises(x) ELSE Returns(x.p, Wrapper(ret[1]))

(***************************************************************************)
(* repl.py: main, and the loops of build_tokens and build_tree.            *)
(***************************************************************************)
Init ==
    /\ pc = "input"
    /\ source = <<>>
    /\ lexer = Lexer(<<>>)
    /\ tokens = <<>>
    /\ parser = Parser(<<>>)
    /\ statements = <<>>
    /\ stack = <<>>
    /\ ret = None
    /\ outcome = Pending

(* source = input('> '); lex.Lexer(source).build_tokens() is entered and   *)
(* calls next_token().                                                     *)
Input ==
    /\ pc = "input"
    /\ \E src \in Sources :
         /\ source' = src
         /\ lexer' = Lexer(src)
    /\ tokens' = <<>>
    /\ stack' = <<next_token_frame>>
    /\ pc' = "build_tokens"
    /\ UNCHANGED <<parser, statements, ret, outcome>>

(* next_token() returned None: build_tokens returns the tokens, and        *)
(* parse.Parser(tokens).build_tree() is entered.                           *)
BuildTokensReturn ==
    /\ pc = "build_tokens"
    /\ stack = <<>>
    /\ ret = Some(PyOptional(None))
    /\ parser' = Parser(tokens)
    /\ ret' = None
    /\ pc' = "build_tree"
    /\ UNCHANGED <<source, lexer, tokens, statements, stack, outcome>>

(* The head of build_tree: with no token at all it returns [].             *)
BuildTreeEnter ==
    /\ pc = "build_tree"
    /\ stack = <<>>
    /\ ret = None
    /\ \/ /\ ~advance(parser).ok
          /\ outcome' = Returned
          /\ pc' = "returned"
          /\ UNCHANGED <<parser, stack>>
       \/ /\ advance(parser).ok
          /\ parser' = advance(parser).p
          /\ stack' = <<parse_statement_frame>>
          /\ UNCHANGED <<pc, outcome>>
    /\ UNCHANGED <<source, lexer, tokens, statements, ret>>

(* build_tree returning after its first statement.                         *)
BuildTreeStatement_returning_at_once ==
    /\ pc = "build_tree"
    /\ stack = <<>>
    /\ ret /= None
    /\ statements' = Append(statements, ret[1])
    /\ ret' = None
    /\ outcome' = Returned
    /\ pc' = "returned"
    /\ UNCHANGED <<source, lexer, tokens, parser, stack>>

(* The loop of build_tree: parse_statement() returned a statement, which   *)
(* is appended; then advance() and the next statement, or the return.      *)
BuildTreeStatement ==
    /\ pc = "build_tree"
    /\ stack = <<>>
    /\ ret /= None
    /\ statements' = Append(statements, ret[1])
    /\ ret' = None
    /\ \/ /\ ~advance(parser).ok
          /\ outcome' = Returned
          /\ pc' = "returned"
          /\ UNCHANGED <<parser, stack>>
       \/ /\ advance(parser).ok
          /\ parser' = advance(parser).p
          /\ stack' = <<parse_statement_frame>>
          /\ UNCHANGED <<pc, outcome>>
    /\ UNCHANGED <<source, lexer, tokens>>

(* repl.py catches IllegalLexemeError and UnexpectedTokenError, prints     *)
(* them and reads the next line; any other exception ends the program.     *)
Continue ==
    /\ pc = "raised"
    /\ outcome.err[1].exc \in {"IllegalLexemeError", "UnexpectedTokenError"}
    /\ pc' = "input"
    /\ source' = <<>>
    /\ lexer' = Lexer(<<>>)
    /\ tokens' = <<>>
    /\ parser' = Parser(<<>>)
    /\ statements' = <<>>
    /\ stack' = <<>>
    /\ ret' = None
    /\ outcome' = Pending

Next ==
    \/ Input
    \/ next_token
    \/ read_identifier
    \/ read_number
    \/ read_string
    \/ BuildTokensAppend
    \/ BuildTokensReturn
    \/ BuildTreeEnter
    \/ BuildTreeStatement
    \/ parse_statement
    \/ parse_expression
    \/ parse_unary
    \/ parse_binary
    \/ parse_grouped
    \/ parse_block
    \/ parse_fn_call
    \/ parse_fn_def
    \/ parse_if
    \/ parse_return
    \/ parse_let
    \/ parse_wrapper
    \/ Continue

Spec == Init /\ [][Next]_vars

(* A program that can take a step of a run takes one: only input() waits.  *)
Running == pc /= "input" /\ Next

FairSpec == Spec /\ WF_vars(Running)

(***************************************************************************)
(* Properties.  They speak of the run of one source: of the tokens and     *)
(* the statements it gives, or of the exception it ends with.              *)
(***************************************************************************)
Finished == pc \in {"returned", "raised"}
exception == outcome.err[1]
FailsWith(exc) == pc = "raised" /\ exception.exc = exc

Operand(w) == Identifier(<<w>>)

(* The operation each operator word denotes and its level in the ladder    *)
(* LOWEST < EQUALS < COMPARISON < SUM < PRODUCT < LOGICAL, as the          *)
(* specification of the grammar states them.                               *)
OperationOf(w) ==
    CASE w = "+" -> "ADD"
      [] w = "-" -> "SUBTRACT"
      [] w = "*" -> "MULTIPLY"
      [] w = "/" -> "DIVIDE"
      [] w = "%" -> "MODULO"
      [] w = "<" -> "LESS"
      [] w = ">" -> "GREATER"
      [] w = "<=" -> "LESS_EQUAL"
      [] w = ">=" -> "GREATER_EQUAL"
      [] w = "==" -> "EQUAL"
      [] w = "!=" -> "NOT_EQUAL"
      [] w = "&&" -> "AND"
      [] w = "||" -> "OR"

UnaryOperationOf(w) == IF w = "!" THEN "NOT" ELSE "NEGATE"

LadderLevel(w) ==
    CASE w \in {"==", "!="} -> 2
      [] w \in {"<", ">", "<=", ">="} -> 3
      [] w \in {"+", "-"} -> 4
      [] w \in {"*", "/", "%"} -> 5
      [] w \in {"&&", "||"} -> 6

LogicalEquality == Text(<<"a", "&&", "b", "==", "c", ";">>)

(* C1, as stated: a && b == c; yields one expression statement whose value *)
(* is Binary(a, AND, Binary(b, EQUAL, c)): the AND node is the root.       *)
C1_AndIsRoot ==
    source = LogicalEquality /\ Finished =>
        /\ pc = "returned"
        /\ statements =
             <<Wrapper(Binary(Operand("a"), "AND",
                              Binary(Operand("b"), "EQUAL", Operand("c"))))>>

(* C1, amended: a && b == c; yields one expression statement whose value   *)
(* is Binary(Binary(a, AND, b), EQUAL, c): LOGICAL binds tighter than      *)
(* EQUALS, so the EQUAL node is the root and the AND node its left operand.*)
C1_EqualIsRoot ==
    source = LogicalEquality /\ Finished =>
        /\ pc = "returned"
        /\ statements =
             <<Wrapper(Binary(Binary(Operand("a"), "AND", Operand("b")),
                              "EQUAL", Operand("c")))>>

C1_Parsed ==
    /\ source = LogicalEquality
    /\ pc = "returned"
    /\ Len(statements) = 1
    /\ statements[1].value.node = "Binary"

(* A COMMA immediately followed by a RIGHT_PARENTHESIS, in tokens without  *)
(* KEYWORD_FN: the parentheses are those of a call or of a group, and a    *)
(* group holds no comma.                                                   *)
TrailingComma ==
    /\ \E i \in 1..(Len(tokens) - 1) :
         tokens[i].type = "COMMA" /\ tokens[i + 1].type = "RIGHT_PARENTHESIS"
    /\ \A i \in DOMAIN tokens : tokens[i].type /= "KEYWORD_FN"

(* C2: a trailing comma in the argument list of a call is rejected:        *)
(* build_tree fails with UnexpectedToken and returns no tree.              *)
C2_TrailingCommaRejected ==
    Finished /\ TrailingComma /\ ~FailsWith("IllegalLexemeError") =>
        FailsWith("UnexpectedTokenError")

(* C3: build_tree either returns the statements or fails with              *)
(* UnexpectedToken, never with another kind of error.                      *)
C3_OnlyUnexpectedToken ==
    pc = "raised" /\ exception.exc /= "IllegalLexemeError" =>
        exception.exc = "UnexpectedTokenError"

(* [0-9]*\.?[0-9]+ : digits and points only, at most one point, and a      *)
(* digit at the end.                                                       *)
MatchesNumberForm(s) ==
    /\ s /= <<>>
    /\ \A i \in DOMAIN s : s[i] \in Digits \cup {"."}
    /\ Cardinality({i \in DOMAIN s : s[i] = "."}) <= 1
    /\ s[Len(s)] \in Digits

(* C4: every NUMBER token carries a literal that matches [0-9]*\.?[0-9]+.  *)
C4_NumberForm ==
    \A i \in DOMAIN tokens :
        tokens[i].type = "NUMBER" => MatchesNumberForm(tokens[i].literal[1])

(* The well-formed programs cut short before their end.                    *)
CutShort ==
    {Text(w) : w \in UNION {{SubSeq(b, 1, n) : n \in 0..(Len(b) - 1)} : b \in BasePrograms}}
        \cup {<<"f", "(", "a">>}

(* C5: when build_tree fails because the tokens end where a token is       *)
(* required, the UnexpectedToken error carries the absence of a token as   *)
(* its actual token.                                                       *)
C5_ActualIsAbsent ==
    FailsWith("UnexpectedTokenError") /\ source \in CutShort =>
        exception.actual = None

(* a op1 b op2 c ;  for every two binary operators.                        *)
OperatorPairs ==
    {[source |-> Text(<<"a", op1, "b", op2, "c", ";">>), op1 |-> op1, op2 |-> op2] :
        op1 \in BinaryWords, op2 \in BinaryWords}

(* C6: a op1 b op2 c; yields Binary(a, op1, Binary(b, op2, c)) exactly     *)
(* when op2's level in the ladder is strictly higher than op1's, and       *)
(* Binary(Binary(a, op1, b), op2, c) otherwise: operators of equal level   *)
(* are left-associative.                                                   *)
C6_Nesting ==
    Finished =>
        \A k \in OperatorPairs :
            k.source = source =>
                /\ pc = "returned"
                /\ statements =
                     IF LadderLevel(k.op2) > LadderLevel(k.op1)
                     THEN <<Wrapper(Binary(Operand("a"), OperationOf(k.op1),
                                           Binary(Operand("b"), OperationOf(k.op2),
                                                  Operand("c"))))>>
                     ELSE <<Wrapper(Binary(Binary(Operand("a"), OperationOf(k.op1),
                                                  Operand("b")),
                                           OperationOf(k.op2), Operand("c")))>>

C6_LeftAssociative ==
    /\ source = Text(<<"a", "-", "b", "-", "c", ";">>)
    /\ pc = "returned"
    /\ statements =
         <<Wrapper(Binary(Binary(Operand("a"), "SUBTRACT", Operand("b")),
                          "SUBTRACT", Operand("c")))>>

(* u a op b ;  for every unary and every binary operator.                  *)
UnaryPairs ==
    {[source |-> Text(<<u, "a", op, "b", ";">>), u |-> u, op |-> op] :
        u \in UnaryWords, op \in BinaryWords}

(* C7: a unary operator binds tighter than every binary operator: u a op b;*)
(* yields Binary(Unary(u, a), op, b), and -a + b * c; yields               *)
(* Binary(Unary(NEGATE, a), ADD, Binary(b, MULTIPLY, c)).                  *)
C7_UnaryBindsTighter ==
    Finished =>
        /\ \A k \in UnaryPairs :
               k.source = source =>
                   /\ pc = "returned"
                   /\ statements =
                        <<Wrapper(Binary(Unary(UnaryOperationOf(k.u), Operand("a")),
                                         OperationOf(k.op), Operand("b")))>>
        /\ source = Text(<<"-", "a", "+", "b", "*", "c", ";">>) =>
               /\ pc = "returned"
               /\ statements =
                    <<Wrapper(Binary(Unary("NEGATE", Operand("a")), "ADD",
                                     Binary(Operand("b"), "MULTIPLY", Operand("c"))))>>

C7_NegatedSum ==
    /\ source = Text(<<"-", "a", "+", "b", "*", "c", ";">>)
    /\ pc = "returned"
    /\ statements[1].value.left = Unary("NEGATE", Operand("a"))

(* The callee names of the FunctionCall nodes of a tree.                   *)
RECURSIVE FunctionCallNames(_)
FunctionCallNames(n) ==
    CASE n.node = "FunctionCall" ->
           {n.name} \cup UNION {FunctionCallNames(n.arguments[i]) : i \in DOMAIN n.arguments}
      [] n.node = "Unary" -> FunctionCallNames(n.value)
      [] n.node = "Binary" -> FunctionCallNames(n.left) \cup FunctionCallNames(n.right)
      [] n.node = "Block" -> UNION {FunctionCallNames(n.body[i]) : i \in DOMAIN n.body}
      [] n.node \in {"Wrapper", "Let"} -> FunctionCallNames(n.value)
      [] n.node = "Return" ->
           IF n.value = PyNone THEN {} ELSE FunctionCallNames(n.value)
      [] n.node = "FunctionDef" -> FunctionCallNames(n.body)
      [] n.node = "If" ->
           FunctionCallNames(n.main[1]) \cup FunctionCallNames(n.main[2])
           \cup UNION {FunctionCallNames(n.alternatives[i][1])
                         \cup FunctionCallNames(n.alternatives[i][2]) :
                       i \in DOMAIN n.alternatives}
           \cup (IF n.fallback = None THEN {} ELSE FunctionCallNames(n.fallback[1]))
      [] OTHER -> {}

IsIdentifierText(name) ==
    /\ "py" \in DOMAIN name
    /\ name.py = "str"
    /\ \E i \in DOMAIN tokens :
         tokens[i].type = "IDENTIFIER" /\ tokens[i].literal[1] = name.v

(* C8: every FunctionCall node that build_tree returns has as its callee   *)
(* name the literal text of an IDENTIFIER token.                           *)
C8_CalleeIsIdentifier ==
    pc = "returned" =>
        \A i \in DOMAIN statements :
            \A name \in FunctionCallNames(statements[i]) : IsIdentifierText(name)

(* The places of the quotes of the source.                                 *)
Quotes == {i \in DOMAIN source : source[i] = QUOTE}
LastQuote == CHOOSE i \in Quotes : \A j \in Quotes : j <= i

(* C9: a source whose last quote opens a string fails with IllegalLexeme   *)
(* and gives no tokens to the parser; when the tokenizer gets to that      *)
(* quote, the payload is the quote and the characters from after it to the *)
(* end of the source.                                                      *)
C9_Unterminated ==
    Cardinality(Quotes) % 2 = 1 =>
        /\ pc \notin {"build_tree", "returned"}
        /\ pc = "raised" =>
             /\ exception.exc = "IllegalLexemeError"
             /\ lexer.index >= LastQuote - 1 =>
                  exception.payload =
                      <<QUOTE>> \o SubSeq(source, LastQuote + 1, Len(source))

C9_OpenString ==
    /\ source = <<QUOTE, "a", "b", "c">>
    /\ pc = "raised"
    /\ exception = IllegalLexemeError(<<QUOTE, "a", "b", "c">>)

(* The token type of each word that begins no expression.                  *)
TypeOf(w) ==
    CASE w = ")" -> "RIGHT_PARENTHESIS"
      [] w = "}" -> "RIGHT_CURLY"
      [] w = "=" -> "ASSIGN"
      [] w = "," -> "COMMA"
      [] w = ";" -> "SEMICOLON"
      [] w = "+" -> "PLUS"
      [] w = "*" -> "ASTERISK"
      [] w = "/" -> "SLASH"
      [] w = "%" -> "MODULUS"
      [] w = "<" -> "LESS"
      [] w = ">" -> "GREATER"
      [] w = "<=" -> "LESS_EQUAL"
      [] w = ">=" -> "GREATER_EQUAL"
      [] w = "==" -> "EQUAL"
      [] w = "!=" -> "BANG_EQUAL"
      [] w = "&&" -> "AND"
      [] w = "||" -> "OR"
      [] w = "fn" -> "KEYWORD_FN"
      [] w = "let" -> "KEYWORD_LET"
      [] w = "if" -> "KEYWORD_IF"
      [] w = "elseif" -> "KEYWORD_ELSEIF"
      [] w = "else" -> "KEYWORD_ELSE"
      [] w = "return" -> "KEYWORD_RETURN"

(* A word that begins no expression, at each place where the grammar       *)
(* begins one, followed by nothing or by more words.                       *)
LeadingCases ==
    {[source |-> Text(k[1].before \o <<k[2]>> \o rest), at |-> Len(k[1].before),
      type |-> TypeOf(k[2])] :
        k \in {x \in LeadingContexts \X (Words \ PrefixWords) : x[2] \notin x[1].taken},
        rest \in {<<>>, <<";">>, <<"a", ";">>}}

WithoutLastSemicolon ==
    {Text(SubSeq(b, 1, Len(b) - 1)) : b \in BasePrograms}
    \cup {Text([b EXCEPT ![Len(b)] = w]) : b \in BasePrograms, w \in Words \ {";"}}

(* C11: each time parse_statement returns, at top level or inside a block, *)
(* the parser's current token is a SEMICOLON; a program whose last         *)
(* statement lacks its semicolon fails with UnexpectedToken.               *)
C11_StatementsEndWithSemicolon ==
    /\ In("build_tree", "parse_statement", "return") =>
          parser.curr[1].type = "SEMICOLON"
    /\ Finished /\ source \in WithoutLastSemicolon =>
          FailsWith("UnexpectedTokenError")

C11_IfInBlockReturned ==
    /\ In("build_tree", "parse_statement", "return")
    /\ Len(stack) > 1
    /\ ret[1].node = "If"
    /\ parser.curr[1].type = "SEMICOLON"

(* The tokens of a text of operator characters and spaces as the           *)
(* specification of the tokenizer gives them, read from the left with one  *)
(* character of lookahead; illegal is the character tokenization fails at. *)
PairOf(ch) ==
    CASE ch = "=" -> "EQUAL"
      [] ch = "!" -> "BANG_EQUAL"
      [] ch = "<" -> "LESS_EQUAL"
      [] ch = ">" -> "GREATER_EQUAL"

AloneOf(ch) ==
    CASE ch = "=" -> "ASSIGN"
      [] ch = "!" -> "BANG"
      [] ch = "<" -> "LESS"
      [] ch = ">" -> "GREATER"

RECURSIVE OperatorTokens(_, _)
OperatorTokens(s, found) ==
    IF s = <<>> THEN [tokens |-> found, illegal |-> None]
    ELSE IF Head(s) = " " THEN OperatorTokens(Tail(s), found)
    ELSE IF Head(s) \in {"=", "!", "<", ">"}
    THEN IF Len(s) >= 2 /\ s[2] = "="
         THEN OperatorTokens(Tail(Tail(s)), Append(found, Token(PairOf(Head(s)), None)))
         ELSE OperatorTokens(Tail(s), Append(found, Token(AloneOf(Head(s)), None)))
    ELSE IF Len(s) >= 2 /\ s[2] = Head(s)
    THEN OperatorTokens(Tail(Tail(s)),
                        Append(found, Token(IF Head(s) = "&" THEN "AND" ELSE "OR", None)))
    ELSE [tokens |-> found, illegal |-> Some(Head(s))]

(* C12: "=", "!", "<", ">" followed by "=" yield one EQUAL, BANG_EQUAL,    *)
(* LESS_EQUAL or GREATER_EQUAL token of both characters, and otherwise     *)
(* ASSIGN, BANG, LESS or GREATER; "&&" and "||" yield AND and OR; an "&"   *)
(* or "|" that is not doubled fails with IllegalLexeme carrying it.        *)
C12_TwoCharacterOperators ==
    Finished /\ (\A i \in DOMAIN source : source[i] \in OperatorCharacters) =>
        LET expected == OperatorTokens(source, <<>>) IN
        IF expected.illegal = None
        THEN /\ tokens = expected.tokens
             /\ ~FailsWith("IllegalLexemeError")
        ELSE /\ pc = "raised"
             /\ exception = IllegalLexemeError(<<expected.illegal[1]>>)

C12_PairThenAlone ==
    /\ source = <<"!", "=", "=">>
    /\ Finished
    /\ tokens = <<Token("BANG_EQUAL", None), Token("ASSIGN", None)>>

(* What a step does to the cursors.  A step moves a cursor at most once,   *)
(* so a move by more than one position is a step by more than one.         *)
CursorStep ==
    /\ pc = "input" /\ pc' = "build_tokens" => lexer'.index = -1
    /\ pc = "build_tokens" /\ pc' = "build_tree" => parser'.index = -1
    /\ pc = "build_tokens" =>
          /\ lexer'.input = source
          /\ lexer'.index \in {lexer.index, lexer.index + 1}
          /\ lexer'.index <= Len(source) - 1
    /\ pc = "build_tree" =>
          /\ parser'.input = tokens
          /\ parser'.index \in {parser.index, parser.index + 1}
          /\ parser'.index <= Len(tokens) - 1
    /\ lexer'.index >= 0 => lexer'.curr = lexer'.input[lexer'.index + 1]
    /\ parser'.index >= 0 => parser'.curr = Some(parser'.input[parser'.index + 1])
    /\ Lexer_peek(lexer', 1) =
          IF lexer'.index + 1 <= Len(lexer'.input) - 1
          THEN Some(lexer'.input[lexer'.index + 2]) ELSE None
    /\ peek(parser', 1) =
          IF parser'.index + 1 <= Len(parser'.input) - 1
          THEN Some(parser'.input[parser'.index + 2]) ELSE None
    /\ pc' = "returned" => parser'.index = Len(tokens') - 1

(* C13: in a run of build_tokens and of build_tree the cursor starts at -1,*)
(* moves only by +1, never back and never past the last item; the current  *)
(* item is the one at the cursor and the lookahead the one after it; and   *)
(* when build_tree returns the cursor is at the last token.                *)
C13_SinglePass == [][CursorStep]_vars

C13_AllConsumed ==
    /\ pc = "returned"
    /\ Len(statements) >= 2
    /\ lexer.index = Len(source) - 1
    /\ parser.index = Len(tokens) - 1

(* C14: build_tokens and build_tree terminate: each run either returns or  *)
(* raises.                                                                 *)
C14_Terminates == pc \in {"build_tokens", "build_tree"} ~> Finished

C14_LoopsLeft ==
    /\ pc = "returned"
    /\ source = Text(<<"fn", "f", "(", "a", ",", "b", ")", "{", "return", "a", "+", "b",
                       ";", "}", ";">>)
    /\ Len(statements[1].arguments) = 2

====
